---- MODULE Spec2Model ----
(***************************************************************************)
(* A model of squirrel_server.py: SquirrelServerHandler, the request       *)
(* handler of a single-threaded HTTPServer, in front of the SquirrelDB     *)
(* record store.                                                           *)
(*                                                                         *)
(* Text that the handler takes apart (the request path, the request body)  *)
(* is a sequence of tokens: "/", "&" and "=" are the separator characters  *)
(* and every other token is an unbroken run of ordinary characters.  Text  *)
(* that the handler only compares or emits is a string; Join turns the     *)
(* first into the second.  The Content-Length header counts tokens.        *)
(***************************************************************************)
EXTENDS Integers, Sequences, FiniteSets, TLC

\* Largest id the store issues in the model: create is disabled beyond it.
MaxId == 3

\* Python's None, for values that are otherwise strings.
None == "<None>"

\* A token that is a byte sequence utf-8 cannot decode.
BadByte == "<0xff>"

VARIABLES
    squirrels,   \* the store's table: a set of rows [id, name, size]
    lastId,      \* the store's autoincrement counter: the largest id issued
    req,         \* the request being handled, NoRequest between requests
    out,         \* what the handler put on the wire for it, call by call
    outcome,     \* how handling it ended: "none" before, then "done" | "raised" | "blocked"
    prev,        \* the store and the three histories below as they were before it
    issued,      \* every id a 201 create was given
    deleted,     \* the text of every id a DELETE answered 204 for
    fresh,       \* the rows as they were submitted to a 201 create, each kept
                 \* until a PUT or a DELETE is sent for its id
    raising,     \* the store call that raises while the request is handled,
                 \* NoFault when none does
    waiting,     \* the connections clients have opened and the server has not
                 \* accepted yet, each with the request sent on it
    handlers,    \* the handlers that are running, each with its position
    reply,       \* the last reply a handler that ran step by step has sent
    mydb         \* the string store: its file, the MyDB instances made on it,
                 \* the last list loaded, and what was saved since the last
                 \* overwrite

vars == <<squirrels, lastId, req, out, outcome, prev, issued, deleted, fresh, raising,
          waiting, handlers, reply, mydb>>

(***************************************************************************)
(* Text helpers                                                            *)
(***************************************************************************)

\* str.join of "" over the tokens: the string the tokens spell.
RECURSIVE Join(_)
Join(toks) ==
    IF toks = <<>> THEN "" ELSE Head(toks) \o Join(Tail(toks))

\* The index of the first sep in toks, 0 when there is none.
RECURSIVE FindFrom(_, _, _)
FindFrom(toks, sep, i) ==
    IF i > Len(toks) THEN 0
    ELSE IF toks[i] = sep THEN i
    ELSE FindFrom(toks, sep, i + 1)

\* str.split(sep): the pieces between the separators, empty pieces kept.
RECURSIVE Split(_, _)
Split(toks, sep) ==
    LET i == FindFrom(toks, sep, 1) IN
    IF i = 0 THEN <<toks>>
    ELSE <<SubSeq(toks, 1, i - 1)>> \o Split(SubSeq(toks, i + 1, Len(toks)), sep)

(***************************************************************************)
(* The wire: the calls a handler makes on its response                     *)
(***************************************************************************)

SendResponse(code) == [op |-> "send_response", code |-> code, key |-> "", val |-> ""]
SendHeader(k, v) == [op |-> "send_header", code |-> 0, key |-> k, val |-> v]
EndHeaders == [op |-> "end_headers", code |-> 0, key |-> "", val |-> ""]
Write(data) == [op |-> "write", code |-> 0, key |-> "", val |-> data]

(***************************************************************************)
(* Requests                                                                *)
(***************************************************************************)

\* The paths requests name.  IdTexts are the ids the store can issue and one
\* it never does.
IdTexts == {ToString(i) : i \in 1..(MaxId + 1)}

Paths ==
    {<<"/">>,
     <<"/", "squirrels">>,
     <<"/", "squirrels", "/">>,
     <<"/", "squirrels", "/", "abc">>,
     <<"/", "squirrels", "/", "/", "1">>,
     <<"/", "squirrels", "/", "1", "/", "extra">>,
     <<"/", "/", "squirrels">>,
     <<"/", "other">>,
     <<"/", "other", "/", "1">>,
     <<"squirrels">>}
    \cup {<<"/", "squirrels", "/", t>> : t \in IdTexts}

\* The bodies requests carry: form fields, present, empty, missing, repeated,
\* in either order, and bodies that are no form data at all.
Field(k, v) == <<k, "=", v>>

\* The (name, size) pairs of the valid forms.
ValidPairs == {<<"A", "A">>, <<"A", "B">>, <<"B", "B">>}

ValidBodies ==
    {Field("name", v[1]) \o <<"&">> \o Field("size", v[2]) : v \in ValidPairs}

Bodies ==
    ValidBodies
    \cup {<<>>, <<"junk">>, <<BadByte>>, Field("name", "A"), Field("size", "A"),
          Field("size", "B") \o <<"&">> \o Field("name", "A"),
          <<"name", "=", "&">> \o Field("size", "A"),
          Field("name", "A") \o <<"&", "size", "=">>,
          Field("name", "A") \o <<"&">> \o Field("name", "B") \o <<"&">> \o Field("size", "B"),
          Field("name", "A") \o <<"&">> \o Field("size", "B") \o <<BadByte>>}

\* One valid form.
OneForm == Field("name", "A") \o <<"&">> \o Field("size", "B")

\* The Content-Type a client gives a form body unless it says otherwise.
FormType == "application/x-www-form-urlencoded"

Request(m, p, l, b) ==
    [method |-> m, path |-> p, clen |-> l, body |-> b, ctype |-> FormType]

\* What is sent with a path: every body under a Content-Length that is its
\* length, and one valid body under the other Content-Lengths: a shorter one
\* (the body is cut), zero, none, an empty one and one that is no number.
OddLengths(body) == {ToString(Len(body) - 1), "0", None, "", "abc"}

Payloads ==
    {<<ToString(Len(b)), b>> : b \in Bodies}
    \cup {<<l, OneForm>> : l \in OddLengths(OneForm)}

Methods == {"GET", "POST", "PUT", "DELETE", "PATCH", "HEAD", "OPTIONS"}

\* Only POST and PUT requests are sent with a body.
BodyMethods == {"POST", "PUT"}

\* The paths POST and PUT requests are sent to with every payload; to the
\* other paths they are sent with one valid form.
BodyPaths == {<<"/", "squirrels">>} \cup {<<"/", "squirrels", "/", t>> : t \in IdTexts}

Requests ==
    {Request(m, p, None, <<>>) : m \in Methods \ BodyMethods, p \in Paths}
    \cup {Request(m, p, pl[1], pl[2]) : m \in BodyMethods, p \in BodyPaths, pl \in Payloads}
    \cup {Request(m, p, ToString(Len(OneForm)), OneForm) :
             m \in BodyMethods, p \in Paths \ BodyPaths}

NoRequest == Request("", <<>>, None, <<>>)

(***************************************************************************)
(* SquirrelServerHandler: helpers                                          *)
(***************************************************************************)

\* Python's truth of a string or None.
Truthy(s) == s # None /\ s # ""

\* parsePath taking a path of more than two segments for no resource.
parsePath_Strict(path) ==
    IF path # <<>> /\ Head(path) = "/"
    THEN LET parts == Split(Tail(path), "/") IN
         IF Len(parts) > 2 THEN [resourceName |-> "", resourceId |-> None]
         ELSE [resourceName |-> Join(parts[1]),
               resourceId |-> IF Len(parts) > 1 /\ parts[2] # <<>>
                              THEN Join(parts[2]) ELSE None]
    ELSE [resourceName |-> "", resourceId |-> None]

\* parsePath taking all that follows the first "/" for the resource name.
parsePath_Whole(path) ==
    IF path # <<>> /\ Head(path) = "/"
    THEN [resourceName |-> Join(Tail(path)), resourceId |-> None]
    ELSE [resourceName |-> "", resourceId |-> None]

parsePath(path) ==
    IF path # <<>> /\ Head(path) = "/"
    THEN LET parts == Split(Tail(path), "/") IN
         [resourceName |-> Join(parts[1]),
          resourceId |-> IF Len(parts) > 1 /\ parts[2] # <<>>
                         THEN Join(parts[2]) ELSE None]
    ELSE [resourceName |-> "", resourceId |-> None]

\* int(): the number a Content-Length text spells, for the texts that spell one.
LongestBody == CHOOSE n \in {Len(b) : b \in Bodies} : \A b \in Bodies : Len(b) <= n
LengthRange == -1 .. (LongestBody + 1)
IsInt(s) == \E n \in LengthRange : ToString(n) = s
int(s) == CHOOSE n \in LengthRange : ToString(n) = s

\* rfile.read(length) returns once it has length bytes or the client closes:
\* with more bytes declared than sent (or a negative length: read to the end)
\* it waits for the client.
ReadBlocks(r) ==
    /\ Truthy(r.clen)
    /\ IsInt(r.clen)
    /\ (int(r.clen) < 0 \/ int(r.clen) > Len(r.body))

\* urllib.parse.parse_qsl on the decoded body: the pieces between "&", each
\* cut at its first "="; a piece with an empty value (or no "=") is dropped.
RECURSIVE ParseQsl(_)
ParseQsl(pieces) ==
    IF pieces = <<>> THEN <<>>
    ELSE LET nv == Head(pieces)
             eq == FindFrom(nv, "=", 1)
             name == IF eq = 0 THEN nv ELSE SubSeq(nv, 1, eq - 1)
             value == IF eq = 0 THEN <<>> ELSE SubSeq(nv, eq + 1, Len(nv))
         IN (IF value # <<>> THEN <<<<Join(name), Join(value)>>>> ELSE <<>>)
            \o ParseQsl(Tail(pieces))

EmptyDict == [k \in {} |-> ""]

\* parse_qs gathers each key's values in order; the handler keeps the first.
FirstValues(pairs) ==
    [k \in {pairs[i][1] : i \in DOMAIN pairs} |->
        pairs[CHOOSE i \in DOMAIN pairs :
                 /\ pairs[i][1] = k
                 /\ \A j \in DOMAIN pairs : pairs[j][1] = k => i <= j][2]]

\* getRequestData taking a body for a form only under the form Content-Type.
getRequestData_FormOnly(r) ==
    IF r.ctype # FormType THEN EmptyDict
    ELSE IF ~Truthy(r.clen) THEN EmptyDict
    ELSE IF ~IsInt(r.clen) THEN EmptyDict
    ELSE LET length == int(r.clen)
             bytes == IF length < 0 \/ length > Len(r.body) THEN r.body
                      ELSE SubSeq(r.body, 1, length)
         IN IF \E i \in DOMAIN bytes : bytes[i] = BadByte THEN EmptyDict
            ELSE FirstValues(ParseQsl(Split(bytes, "&")))

\* getRequestData decoding with errors="ignore": undecodable bytes are dropped.
getRequestData_Lenient(r) ==
    IF ~Truthy(r.clen) THEN EmptyDict
    ELSE IF ~IsInt(r.clen) THEN EmptyDict
    ELSE LET length == int(r.clen)
             bytes == IF length < 0 \/ length > Len(r.body) THEN r.body
                      ELSE SubSeq(r.body, 1, length)
         IN FirstValues(ParseQsl(Split(SelectSeq(bytes, LAMBDA b : b # BadByte), "&")))

getRequestData(r) ==
    IF ~Truthy(r.clen) THEN EmptyDict
    ELSE IF ~IsInt(r.clen) THEN EmptyDict
    ELSE LET length == int(r.clen)
             bytes == IF length < 0 \/ length > Len(r.body) THEN r.body
                      ELSE SubSeq(r.body, 1, length)
         IN IF \E i \in DOMAIN bytes : bytes[i] = BadByte THEN EmptyDict
            ELSE FirstValues(ParseQsl(Split(bytes, "&")))

\* dict.get(key)
Get(data, key) == IF key \in DOMAIN data THEN data[key] ELSE None

\* handle400 without the Content-Type header.
handle400_NoType(message) ==
    <<SendResponse(400), EndHeaders, Write(message)>>

handle400(message) ==
    <<SendResponse(400), SendHeader("Content-Type", "text/plain"), EndHeaders,
      Write(message)>>

handle404 ==
    <<SendResponse(404), SendHeader("Content-Type", "text/plain"), EndHeaders,
      Write("404 Not Found")>>

(***************************************************************************)
(* SquirrelDB, the record store: a table of rows with an autoincrement id  *)
(***************************************************************************)

Ids(rows) == {r.id : r \in rows}

\* A lookup that finds nothing returns None, which is false like an empty row.
NoSquirrel == [id |-> 0, name |-> "", size |-> ""]

\* The row an id text names: a row's id matches the text that spells it.
Matches(row, squirrelId) == ToString(row.id) = squirrelId

\* Rows in ascending order of id.
RECURSIVE SortById(_)
SortById(rows) ==
    IF rows = {} THEN <<>>
    ELSE LET first == CHOOSE r \in rows : \A q \in rows : r.id <= q.id
         IN <<first>> \o SortById(rows \ {first})

getSquirrels(rows) == SortById(rows)

getSquirrel(rows, squirrelId) ==
    IF \E r \in rows : Matches(r, squirrelId)
    THEN CHOOSE r \in rows : Matches(r, squirrelId)
    ELSE NoSquirrel

\* createSquirrel numbering from the largest id in the table, not the largest
\* ever issued.
createSquirrel_FromMax(rows, last, name, size) ==
    LET top == IF rows = {} THEN 0
               ELSE CHOOSE n \in Ids(rows) : \A m \in Ids(rows) : m <= n
    IN [squirrels |-> rows \cup {[id |-> top + 1, name |-> name, size |-> size]},
        lastId |-> top + 1]

\* The new row takes the id after the largest ever issued.
createSquirrel(rows, last, name, size) ==
    [squirrels |-> rows \cup {[id |-> last + 1, name |-> name, size |-> size]},
     lastId |-> last + 1]

updateSquirrel(rows, squirrelId, name, size) ==
    {IF Matches(r, squirrelId) THEN [r EXCEPT !.name = name, !.size = size] ELSE r
        : r \in rows}

deleteSquirrel(rows, squirrelId) == {r \in rows : ~Matches(r, squirrelId)}

\* The store calls a handler makes; Faults are the ones that may raise.
StoreCalls ==
    {"SquirrelDB", "getSquirrels", "getSquirrel", "createSquirrel",
     "updateSquirrel", "deleteSquirrel"}

NoFault == "none"

(***************************************************************************)
(* json.dumps of a row and of a list of rows                               *)
(***************************************************************************)

Quoted(s) == "\"" \o s \o "\""

JsonObject(row) ==
    "{" \o Quoted("id") \o ": " \o ToString(row.id) \o ", "
        \o Quoted("name") \o ": " \o Quoted(row.name) \o ", "
        \o Quoted("size") \o ": " \o Quoted(row.size) \o "}"

RECURSIVE JsonItems(_)
JsonItems(list) ==
    IF list = <<>> THEN ""
    ELSE IF Len(list) = 1 THEN JsonObject(list[1])
    ELSE JsonObject(Head(list)) \o ", " \o JsonItems(Tail(list))

JsonArray(list) == "[" \o JsonItems(list) \o "]"

(***************************************************************************)
(* SquirrelServerHandler: actions.  Each gives what it put on the wire,    *)
(* the store it leaves and how it ended: "done", "raised" (an exception    *)
(* left the handler; the server drops the connection) or "blocked" (it     *)
(* waits for body bytes).  fault names the store call that raises, if any. *)
(***************************************************************************)

Result(o, rows, last, how) ==
    [out |-> o, squirrels |-> rows, lastId |-> last, outcome |-> how]

\* handleSquirrelsIndex answering 404 for an empty list.
handleSquirrelsIndex_EmptyIs404(rows, last, fault) ==
    LET squirrelsList == getSquirrels(rows) IN
    IF squirrelsList = <<>> THEN Result(handle404, rows, last, "done")
    ELSE Result(<<SendResponse(200), SendHeader("Content-Type", "application/json"),
                  EndHeaders, Write(JsonArray(squirrelsList))>>,
                rows, last, "done")

handleSquirrelsIndex(rows, last, fault) ==
    IF fault \in {"SquirrelDB", "getSquirrels"} THEN Result(<<>>, rows, last, "raised")
    ELSE LET squirrelsList == getSquirrels(rows) IN
         Result(<<SendResponse(200), SendHeader("Content-Type", "application/json"),
                  EndHeaders, Write(JsonArray(squirrelsList))>>,
                rows, last, "done")

\* handleSquirrelsRetrieve checking that the id is a number before it looks
\* it up, and answering 400 when it is not.
handleSquirrelsRetrieve_NumericOnly(rows, last, fault, squirrelId) ==
    IF squirrelId \notin IdTexts
    THEN Result(handle400("Invalid id"), rows, last, "done")
    ELSE LET squirrel == getSquirrel(rows, squirrelId) IN
         IF squirrel # NoSquirrel
         THEN Result(<<SendResponse(200), SendHeader("Content-Type", "application/json"),
                       EndHeaders, Write(JsonObject(squirrel))>>,
                     rows, last, "done")
         ELSE Result(handle404, rows, last, "done")

\* handleSquirrelsRetrieve writing the row as a list of one.
handleSquirrelsRetrieve_AsList(rows, last, fault, squirrelId) ==
    LET squirrel == getSquirrel(rows, squirrelId) IN
    IF squirrel # NoSquirrel
    THEN Result(<<SendResponse(200), SendHeader("Content-Type", "application/json"),
                  EndHeaders, Write(JsonArray(<<squirrel>>))>>,
                rows, last, "done")
    ELSE Result(handle404, rows, last, "done")

handleSquirrelsRetrieve(rows, last, fault, squirrelId) ==
    IF fault \in {"SquirrelDB", "getSquirrel"} THEN Result(<<>>, rows, last, "raised")
    ELSE LET squirrel == getSquirrel(rows, squirrelId) IN
         IF squirrel # NoSquirrel
         THEN Result(<<SendResponse(200), SendHeader("Content-Type", "application/json"),
                       EndHeaders, Write(JsonObject(squirrel))>>,
                     rows, last, "done")
         ELSE Result(handle404, rows, last, "done")

\* handleSquirrelsCreate inserting before it checks the form.
handleSquirrelsCreate_InsertFirst(r, rows, last, fault) ==
    LET body == getRequestData(r)
        name == Get(body, "name")
        size == Get(body, "size")
        db == createSquirrel(rows, last, name, size)
    IN IF ~Truthy(name) \/ ~Truthy(size)
       THEN Result(handle400("Missing or empty 'name' or 'size'"),
                   db.squirrels, db.lastId, "done")
       ELSE Result(<<SendResponse(201), EndHeaders>>, db.squirrels, db.lastId, "done")

\* handleSquirrelsCreate without the try around the insert: its failure leaves
\* the handler.
handleSquirrelsCreate_Uncaught(r, rows, last, fault) ==
    IF fault = "SquirrelDB" THEN Result(<<>>, rows, last, "raised")
    ELSE LET body == getRequestData(r)
             name == Get(body, "name")
             size == Get(body, "size")
         IN IF ~Truthy(name) \/ ~Truthy(size)
            THEN Result(handle400("Missing or empty 'name' or 'size'"), rows, last, "done")
            ELSE IF fault = "createSquirrel" THEN Result(<<>>, rows, last, "raised")
            ELSE LET db == createSquirrel(rows, last, name, size) IN
                 Result(<<SendResponse(201), EndHeaders>>, db.squirrels, db.lastId, "done")

\* handleSquirrelsCreate handing name and size to the store the wrong way round.
handleSquirrelsCreate_Swapped(r, rows, last, fault) ==
    LET body == getRequestData(r)
        name == Get(body, "name")
        size == Get(body, "size")
    IN IF ~Truthy(name) \/ ~Truthy(size)
       THEN Result(handle400("Missing or empty 'name' or 'size'"), rows, last, "done")
       ELSE LET db == createSquirrel(rows, last, size, name) IN
            Result(<<SendResponse(201), EndHeaders>>, db.squirrels, db.lastId, "done")

handleSquirrelsCreate(r, rows, last, fault) ==
    IF fault = "SquirrelDB" THEN Result(<<>>, rows, last, "raised")
    ELSE IF ReadBlocks(r) THEN Result(<<>>, rows, last, "blocked")
    ELSE LET body == getRequestData(r)
             name == Get(body, "name")
             size == Get(body, "size")
         IN IF ~Truthy(name) \/ ~Truthy(size)
            THEN Result(handle400("Missing or empty 'name' or 'size'"), rows, last, "done")
            ELSE IF fault = "createSquirrel"
            THEN Result(handle400("Could not create squirrel with provided data"),
                        rows, last, "done")
            ELSE LET db == createSquirrel(rows, last, name, size) IN
                 Result(<<SendResponse(201), EndHeaders>>, db.squirrels, db.lastId, "done")

\* handleSquirrelsUpdate replacing the record: it deletes it and inserts the
\* new name and size.
handleSquirrelsUpdate_Recreate(r, rows, last, fault, squirrelId) ==
    LET squirrel == getSquirrel(rows, squirrelId) IN
    IF squirrel = NoSquirrel THEN Result(handle404, rows, last, "done")
    ELSE LET body == getRequestData(r)
             name == Get(body, "name")
             size == Get(body, "size")
         IN IF ~Truthy(name) \/ ~Truthy(size)
            THEN Result(handle400("Missing or empty 'name' or 'size'"), rows, last, "done")
            ELSE LET db == createSquirrel(deleteSquirrel(rows, squirrelId), last, name, size)
                 IN Result(<<SendResponse(204), EndHeaders>>, db.squirrels, db.lastId, "done")

\* handleSquirrelsUpdate answering 204 without the call to the store.
handleSquirrelsUpdate_NoStore(r, rows, last, fault, squirrelId) ==
    LET squirrel == getSquirrel(rows, squirrelId) IN
    IF squirrel = NoSquirrel THEN Result(handle404, rows, last, "done")
    ELSE LET body == getRequestData(r)
             name == Get(body, "name")
             size == Get(body, "size")
         IN IF ~Truthy(name) \/ ~Truthy(size)
            THEN Result(handle400("Missing or empty 'name' or 'size'"), rows, last, "done")
            ELSE Result(<<SendResponse(204), EndHeaders>>, rows, last, "done")

\* handleSquirrelsUpdate validating the form before it looks the id up.
handleSquirrelsUpdate_ValidateFirst(r, rows, last, fault, squirrelId) ==
    LET body == getRequestData(r)
        name == Get(body, "name")
        size == Get(body, "size")
        squirrel == getSquirrel(rows, squirrelId)
    IN IF ~Truthy(name) \/ ~Truthy(size)
       THEN Result(handle400("Missing or empty 'name' or 'size'"), rows, last, "done")
       ELSE IF squirrel = NoSquirrel THEN Result(handle404, rows, last, "done")
       ELSE Result(<<SendResponse(204), EndHeaders>>,
                   updateSquirrel(rows, squirrelId, name, size), last, "done")

\* handleSquirrelsUpdate validating the name alone.
handleSquirrelsUpdate_NameOnly(r, rows, last, fault, squirrelId) ==
    LET squirrel == getSquirrel(rows, squirrelId) IN
    IF squirrel = NoSquirrel THEN Result(handle404, rows, last, "done")
    ELSE LET body == getRequestData(r)
             name == Get(body, "name")
             size == Get(body, "size")
         IN IF ~Truthy(name)
            THEN Result(handle400("Missing or empty 'name' or 'size'"), rows, last, "done")
            ELSE Result(<<SendResponse(204), EndHeaders>>,
                        updateSquirrel(rows, squirrelId, name, size), last, "done")

handleSquirrelsUpdate(r, rows, last, fault, squirrelId) ==
    IF fault \in {"SquirrelDB", "getSquirrel"} THEN Result(<<>>, rows, last, "raised")
    ELSE LET squirrel == getSquirrel(rows, squirrelId) IN
         IF squirrel = NoSquirrel THEN Result(handle404, rows, last, "done")
         ELSE IF ReadBlocks(r) THEN Result(<<>>, rows, last, "blocked")
         ELSE LET body == getRequestData(r)
                  name == Get(body, "name")
                  size == Get(body, "size")
              IN IF ~Truthy(name) \/ ~Truthy(size)
                 THEN Result(handle400("Missing or empty 'name' or 'size'"),
                             rows, last, "done")
                 ELSE IF fault = "updateSquirrel"
                 THEN Result(handle400("Could not update squirrel with provided data"),
                             rows, last, "done")
                 ELSE Result(<<SendResponse(204), EndHeaders>>,
                             updateSquirrel(rows, squirrelId, name, size), last, "done")

\* handleSquirrelsDelete answering 204 without the call to the store.
handleSquirrelsDelete_NoStore(rows, last, fault, squirrelId) ==
    LET squirrel == getSquirrel(rows, squirrelId) IN
    IF squirrel # NoSquirrel
    THEN Result(<<SendResponse(204), EndHeaders>>, rows, last, "done")
    ELSE Result(handle404, rows, last, "done")

\* handleSquirrelsDelete without the lookup: 204 whether the id is there or not.
handleSquirrelsDelete_NoLookup(rows, last, fault, squirrelId) ==
    Result(<<SendResponse(204), EndHeaders>>, deleteSquirrel(rows, squirrelId), last, "done")

handleSquirrelsDelete(rows, last, fault, squirrelId) ==
    IF fault \in {"SquirrelDB", "getSquirrel"} THEN Result(<<>>, rows, last, "raised")
    ELSE LET squirrel == getSquirrel(rows, squirrelId) IN
         IF squirrel # NoSquirrel
         THEN IF fault = "deleteSquirrel" THEN Result(<<>>, rows, last, "raised")
              ELSE Result(<<SendResponse(204), EndHeaders>>,
                          deleteSquirrel(rows, squirrelId), last, "done")
         ELSE Result(handle404, rows, last, "done")

(***************************************************************************)
(* SquirrelServerHandler: HTTP methods                                     *)
(***************************************************************************)

do_GET(r, rows, last, fault) ==
    LET p == parsePath(r.path) IN
    IF p.resourceName = "squirrels"
    THEN IF Truthy(p.resourceId)
         THEN handleSquirrelsRetrieve(rows, last, fault, p.resourceId)
         ELSE handleSquirrelsIndex(rows, last, fault)
    ELSE Result(handle404, rows, last, "done")

\* do_POST without the test for an id in the path.
do_POST_IgnoringId(r, rows, last, fault) ==
    LET p == parsePath(r.path) IN
    IF p.resourceName = "squirrels"
    THEN handleSquirrelsCreate(r, rows, last, fault)
    ELSE Result(handle404, rows, last, "done")

do_POST(r, rows, last, fault) ==
    LET p == parsePath(r.path) IN
    IF p.resourceName = "squirrels"
    THEN IF Truthy(p.resourceId)
         THEN Result(handle404, rows, last, "done")
         ELSE handleSquirrelsCreate(r, rows, last, fault)
    ELSE Result(handle404, rows, last, "done")

do_PUT(r, rows, last, fault) ==
    LET p == parsePath(r.path) IN
    IF p.resourceName = "squirrels"
    THEN IF Truthy(p.resourceId)
         THEN handleSquirrelsUpdate(r, rows, last, fault, p.resourceId)
         ELSE Result(handle404, rows, last, "done")
    ELSE Result(handle404, rows, last, "done")

do_DELETE(r, rows, last, fault) ==
    LET p == parsePath(r.path) IN
    IF p.resourceName = "squirrels"
    THEN IF Truthy(p.resourceId)
         THEN handleSquirrelsDelete(rows, last, fault, p.resourceId)
         ELSE Result(handle404, rows, last, "done")
    ELSE Result(handle404, rows, last, "done")

\* do_PATCH looking at the path first: 404 off the squirrels resource.
do_PATCH_Routed(r, rows, last, fault) ==
    IF parsePath(r.path).resourceName = "squirrels"
    THEN Result(<<SendResponse(405), SendHeader("Content-Type", "text/plain"), EndHeaders,
                  Write("405 Method Not Allowed")>>,
                rows, last, "done")
    ELSE Result(handle404, rows, last, "done")

do_PATCH(r, rows, last, fault) ==
    Result(<<SendResponse(405), SendHeader("Content-Type", "text/plain"), EndHeaders,
             Write("405 Method Not Allowed")>>,
           rows, last, "done")

\* http.server.DEFAULT_ERROR_MESSAGE filled in with the status code, the
\* message and the explanation: the HTML page send_error writes.
DEFAULT_ERROR_MESSAGE(code, message, explain) ==
    "<!DOCTYPE HTML>\n"
    \o "<html lang=\"en\">\n"
    \o "    <head>\n"
    \o "        <meta charset=\"utf-8\">\n"
    \o "        <title>Error response</title>\n"
    \o "    </head>\n"
    \o "    <body>\n"
    \o "        <h1>Error response</h1>\n"
    \o "        <p>Error code: " \o code \o "</p>\n"
    \o "        <p>Message: " \o message \o ".</p>\n"
    \o "        <p>Error code explanation: " \o code \o " - " \o explain \o ".</p>\n"
    \o "    </body>\n"
    \o "</html>\n"

\* The page of a 501 for the command: the message names the command, the
\* explanation is the long entry of the status.
ErrorPage501(command) ==
    DEFAULT_ERROR_MESSAGE("501", "Unsupported method ('" \o command \o "')",
                          "Server does not support this operation")

\* BaseHTTPRequestHandler answers a method the handler has no do_ method for
\* with send_error(501): the status line, Connection: close, the type and the
\* length of the error page, and the page itself unless the command is HEAD.
send_error501(r, rows, last) ==
    Result(<<SendResponse(501), SendHeader("Connection", "close"),
             SendHeader("Content-Type", "text/html;charset=utf-8"),
             SendHeader("Content-Length", ToString(Len(ErrorPage501(r.method)))),
             EndHeaders>>
           \o (IF r.method = "HEAD" THEN <<>> ELSE <<Write(ErrorPage501(r.method))>>),
           rows, last, "done")

\* BaseHTTPRequestHandler.parse_request reduces the slashes a path begins with
\* to one before the handler sees the path.
RECURSIVE ReducePath(_)
ReducePath(path) ==
    IF Len(path) >= 2 /\ path[1] = "/" /\ path[2] = "/"
    THEN ReducePath(Tail(path))
    ELSE path

\* The request as the handler sees it.
Parsed(r) == [r EXCEPT !.path = ReducePath(r.path)]

\* BaseHTTPRequestHandler calls the do_ method named after the request method.
Dispatch(r, rows, last, fault) ==
    CASE r.method = "GET" -> do_GET(Parsed(r), rows, last, fault)
      [] r.method = "POST" -> do_POST(Parsed(r), rows, last, fault)
      [] r.method = "PUT" -> do_PUT(Parsed(r), rows, last, fault)
      [] r.method = "DELETE" -> do_DELETE(Parsed(r), rows, last, fault)
      [] r.method = "PATCH" -> do_PATCH(Parsed(r), rows, last, fault)
      [] OTHER -> send_error501(Parsed(r), rows, last)

(***************************************************************************)
(* What a client sees of a response                                        *)
(***************************************************************************)

\* The status lines, in the order sent.
StatusLines(o) == SelectSeq(o, LAMBDA e : e.op = "send_response")

\* The status: that of the first status line, 0 when none was sent.
Status(o) == IF StatusLines(o) = <<>> THEN 0 ELSE StatusLines(o)[1].code

\* The Content-Type header, None when it was not sent.
ContentType(o) ==
    LET hs == SelectSeq(o, LAMBDA e : e.op = "send_header" /\ e.key = "Content-Type")
    IN IF hs = <<>> THEN None ELSE hs[1].val

\* The body: what was written, "" when nothing was.
RECURSIVE Written(_)
Written(o) ==
    IF o = <<>> THEN ""
    ELSE (IF Head(o).op = "write" THEN Head(o).val ELSE "") \o Written(Tail(o))

(***************************************************************************)
(* The server: HTTPServer handles one request at a time, start to end      *)
(***************************************************************************)

(***************************************************************************)
(* MyDB, the string store: a list of strings pickled into one file         *)
(***************************************************************************)

\* Longest list the store is given in the model.
MaxStrings == 3

\* The strings saved.
Strings == {"a", "b"}

\* The lists saveStrings is given: the empty list and lists of one and two.
Lists == {<<>>} \cup {<<s>> : s \in Strings} \cup {<<s, t>> : s \in Strings, t \in Strings}

\* The instances made on the file.
Instances == {"db", "db2"}

\* pickle.dump and pickle.load: the file holds the list under the pickle
\* framing, and loading takes it out again.
Pickle(list) == [exists |-> TRUE, header |-> "pickle", items |-> list]
Unpickle(file) == file.items

\* No file yet.
NoFile == [exists |-> FALSE, header |-> "", items |-> <<>>]

\* MyDB(path): the file is created, holding the empty list, when it is missing.
MyDBInit(file) == IF file.exists THEN file ELSE Pickle(<<>>)

loadStrings(file) == Unpickle(file)

\* saveStrings adding the list to what the file holds.
saveStrings_Extend(file, list) == Pickle(Unpickle(file) \o list)

\* saveStrings writes the list over what the file holds.
saveStrings(file, list) == Pickle(list)

\* saveString loads the list, appends the string and saves the list.
saveString(file, s) == saveStrings(file, loadStrings(file) \o <<s>>)

\* Nothing loaded (since the last save).
NotLoaded == <<"<not loaded>">>

NoMyDB ==
    [file |-> NoFile, opened |-> {}, loaded |-> NotLoaded, loader |-> "",
     saved |-> <<>>, appended |-> <<>>, writers |-> {}, overwrote |-> FALSE]

\* What a handler that ran step by step reports of its reply: whether the
\* store changed between its lookup and its mutation, whether the record was
\* there when it mutated, and the connections that waited when it began.
Reply(h, status, rows) ==
    [client |-> h.client, request |-> h.request, status |-> status,
     interleaved |-> h.pc = "found" /\ rows # h.seen,
     present |-> \E row \in rows : Matches(row, parsePath(h.request.path).resourceId),
     rivals |-> h.rivals]

NoReply ==
    [client |-> "", request |-> NoRequest, status |-> 0, interleaved |-> FALSE,
     present |-> FALSE, rivals |-> {}]

Snapshot == [squirrels |-> squirrels, lastId |-> lastId,
             issued |-> issued, deleted |-> deleted, fresh |-> fresh]

Init ==
    /\ squirrels = {}
    /\ lastId = 0
    /\ req = NoRequest
    /\ out = <<>>
    /\ outcome = "none"
    /\ issued = {}
    /\ deleted = {}
    /\ fresh = {}
    /\ raising = NoFault
    /\ waiting = {}
    /\ handlers = {}
    /\ reply = NoReply
    /\ mydb = NoMyDB
    /\ prev = Snapshot

\* Between requests.
Idle == req = NoRequest

\* One request, from its arrival to the end of the handler.  The server takes
\* the next request only when it has finished with this one.
Handle(r, fault) ==
    /\ Idle
    /\ \E res \in {Dispatch(r, squirrels, lastId, fault)} :
          /\ res.lastId <= MaxId
          /\ squirrels' = res.squirrels
          /\ lastId' = res.lastId
          /\ req' = r
          /\ out' = res.out
          /\ outcome' = res.outcome
          /\ raising' = fault
          /\ prev' = Snapshot
          /\ UNCHANGED <<mydb, waiting, handlers, reply>>
          /\ issued' = IF Status(res.out) = 201
                       THEN issued \cup (Ids(res.squirrels) \ Ids(squirrels))
                       ELSE issued
          /\ deleted' = IF r.method = "DELETE" /\ Status(res.out) = 204
                        THEN deleted \cup {parsePath(Parsed(r).path).resourceId}
                        ELSE deleted
          /\ fresh' = IF Status(res.out) = 201
                      THEN fresh \cup {[id |-> n,
                                        name |-> Get(getRequestData(r), "name"),
                                        size |-> Get(getRequestData(r), "size")]
                                       : n \in Ids(res.squirrels) \ Ids(squirrels)}
                      ELSE IF r.method \in {"PUT", "DELETE"}
                              /\ parsePath(Parsed(r).path).resourceName = "squirrels"
                      THEN {f \in fresh : ToString(f.id) # parsePath(Parsed(r).path).resourceId}
                      ELSE fresh

GetRequests == {r \in Requests : r.method = "GET"}
PostRequests == {r \in Requests : r.method = "POST"}
PutRequests == {r \in Requests : r.method = "PUT"}
DeleteRequests == {r \in Requests : r.method = "DELETE"}
PatchRequests == {r \in Requests : r.method = "PATCH"}
OtherRequests ==
    {r \in Requests : r.method \notin {"GET", "POST", "PUT", "DELETE", "PATCH"}}

GET == Idle /\ \E r \in GetRequests : Handle(r, NoFault)
POST == Idle /\ \E r \in PostRequests : Handle(r, NoFault)
PUT == Idle /\ \E r \in PutRequests : Handle(r, NoFault)
DELETE == Idle /\ \E r \in DeleteRequests : Handle(r, NoFault)
PATCH == Idle /\ \E r \in PatchRequests : Handle(r, NoFault)
UNSUPPORTED == Idle /\ \E r \in OtherRequests : Handle(r, NoFault)

\* The response is complete, or an exception left the handler and the server
\* reported it: either way the connection is closed and serve_forever goes on
\* to the next request.
Finish ==
    /\ req # NoRequest
    /\ outcome \in {"done", "raised"}
    /\ req' = NoRequest
    /\ out' = <<>>
    /\ outcome' = "none"
    /\ raising' = NoFault
    /\ prev' = Snapshot
    /\ UNCHANGED <<mydb, squirrels, lastId, issued, deleted, fresh, waiting, handlers, reply>>

Next == GET \/ POST \/ PUT \/ DELETE \/ PATCH \/ UNSUPPORTED \/ Finish

Spec == Init /\ [][Next]_vars

(***************************************************************************)
(* The server in front of a store whose calls may raise                    *)
(***************************************************************************)

\* The requests sent while the store may fail: the four routed methods on
\* the collection and on every id, with a valid form and with a name alone.
FaultRequests ==
    {Request(m, p, None, <<>>) : m \in {"GET", "DELETE"}, p \in BodyPaths}
    \cup {Request(m, p, ToString(Len(b)), b) :
             m \in BodyMethods, p \in BodyPaths, b \in {OneForm, Field("name", "A")}}

\* A request during which the store works.
Serve == Idle /\ \E r \in FaultRequests : Handle(r, NoFault)

\* A request during which one call to the store raises.
StoreFails == Idle /\ \E r \in FaultRequests : \E f \in StoreCalls : Handle(r, f)

NextFault == Serve \/ StoreFails \/ Finish

SpecFault == Init /\ [][NextFault]_vars

(***************************************************************************)
(* The server and clients that declare any Content-Length                  *)
(***************************************************************************)

\* The Content-Length headers a body is sent under: the odd ones, its true
\* length, a negative one and one byte more than is sent.
AnyLengths(body) ==
    OddLengths(body) \cup {ToString(Len(body)), ToString(-1), ToString(Len(body) + 1)}

\* Creates and updates with a valid form under every such Content-Length.
BodyRequests ==
    {Request(m, p, l, OneForm) : m \in BodyMethods, p \in BodyPaths, l \in AnyLengths(OneForm)}

\* A request with a body arrives; the client keeps the connection open.
Arrive == Idle /\ \E r \in BodyRequests : Handle(r, NoFault)

\* The client of a handler that waits in rfile.read closes its side: the read
\* returns the bytes that were sent and the handler goes on with them.
ClientCloses ==
    /\ req # NoRequest
    /\ outcome = "blocked"
    /\ \E res \in {Dispatch([req EXCEPT !.clen = ToString(Len(req.body))],
                            squirrels, lastId, NoFault)} :
          /\ res.lastId <= MaxId
          /\ squirrels' = res.squirrels
          /\ lastId' = res.lastId
          /\ out' = res.out
          /\ outcome' = res.outcome
          /\ issued' = IF Status(res.out) = 201
                       THEN issued \cup (Ids(res.squirrels) \ Ids(squirrels))
                       ELSE issued
          /\ fresh' = IF Status(res.out) = 201
                      THEN fresh \cup {[id |-> n,
                                        name |-> Get(getRequestData(req), "name"),
                                        size |-> Get(getRequestData(req), "size")]
                                       : n \in Ids(res.squirrels) \ Ids(squirrels)}
                      ELSE IF req.method = "PUT"
                      THEN {f \in fresh : ToString(f.id) # parsePath(Parsed(req).path).resourceId}
                      ELSE fresh
    /\ UNCHANGED <<mydb, req, prev, deleted, raising, waiting, handlers, reply>>

NextBody == Arrive \/ ClientCloses \/ Finish

\* The server takes the next request once a handler has returned; a client
\* is never obliged to send or to close.
SpecBody == Init /\ [][NextBody]_vars /\ WF_vars(Finish)

(***************************************************************************)
(* The server and clients that send any Content-Type                       *)
(***************************************************************************)

\* The Content-Type headers of requests: none, the form type and others.
ContentTypes == {None, FormType, "text/plain", "application/json"}

\* Creates and updates under every Content-Type, with valid forms, a form
\* without a size and a body that is no form; and the requests that read
\* and delete what they made.
TypedRequests ==
    {[Request(m, p, ToString(Len(b)), b) EXCEPT !.ctype = t] :
        m \in BodyMethods, p \in BodyPaths, t \in ContentTypes,
        b \in ValidBodies \cup {Field("name", "A"), <<"junk">>}}
    \cup {Request(m, p, None, <<>>) : m \in {"GET", "DELETE"}, p \in BodyPaths}

\* A request arrives under some Content-Type.
Typed == Idle /\ \E r \in TypedRequests : Handle(r, NoFault)

NextType == Typed \/ Finish

SpecType == Init /\ [][NextType]_vars

(***************************************************************************)
(* The server with several clients: connections wait until the server      *)
(* accepts them, and a handler runs store call by store call               *)
(***************************************************************************)

\* The clients that send requests at the same time.
Clients == {"a", "b"}

\* The form an update is sent with.
UpdateForm == Field("name", "B") \o <<"&">> \o Field("size", "B")

\* What the clients send: creates, and updates and deletes of every id.
ConcurrentRequests ==
    {Request("POST", <<"/", "squirrels">>, ToString(Len(OneForm)), OneForm)}
    \cup {Request("PUT", <<"/", "squirrels", "/", t>>, ToString(Len(UpdateForm)), UpdateForm)
             : t \in IdTexts}
    \cup {Request("DELETE", <<"/", "squirrels", "/", t>>, None, <<>>) : t \in IdTexts}

\* The connections that are open: waiting or being handled.
Open == waiting \cup {[client |-> h.client, request |-> h.request] : h \in handlers}

\* A client with no request under way opens a connection and sends one.  (A
\* create is sent only while the store has an id left to give.)
Send ==
    \E c \in Clients, r \in ConcurrentRequests :
        /\ \A w \in Open : w.client # c
        /\ r.method = "POST" =>
              lastId + Cardinality({w \in Open : w.request.method = "POST"}) < MaxId
        /\ waiting' = waiting \cup {[client |-> c, request |-> r]}
        /\ UNCHANGED <<mydb, squirrels, lastId, req, out, outcome, prev, issued, deleted, fresh,
                       raising, handlers, reply>>

\* ThreadingHTTPServer: a thread per connection, accepted at once.
ServerFree_Threaded == TRUE

\* HTTPServer.serve_forever handles a request in the thread that accepts
\* connections: it accepts the next one when the handler has returned.
ServerFree == handlers = {}

\* The server accepts a waiting connection and starts a handler for it.
Accept ==
    /\ ServerFree
    /\ \E w \in waiting :
          /\ waiting' = waiting \ {w}
          /\ handlers' = handlers \cup
                 {[client |-> w.client, request |-> w.request, pc |-> "start",
                   seen |-> squirrels, rivals |-> waiting \ {w}]}
    /\ UNCHANGED <<mydb, squirrels, lastId, req, out, outcome, prev, issued, deleted, fresh,
                   raising, reply>>

\* handleSquirrelsUpdate and handleSquirrelsDelete, first store call: the
\* lookup, answered 404 when it finds nothing.
Lookup ==
    \E h \in handlers :
        /\ h.pc = "start" /\ h.request.method \in {"PUT", "DELETE"}
        /\ LET squirrel == getSquirrel(squirrels, parsePath(h.request.path).resourceId)
           IN IF squirrel = NoSquirrel
              THEN /\ handlers' = handlers \ {h}
                   /\ reply' = Reply(h, Status(handle404), squirrels)
              ELSE /\ handlers' = (handlers \ {h})
                                      \cup {[h EXCEPT !.pc = "found", !.seen = squirrels]}
                   /\ UNCHANGED reply
        /\ UNCHANGED <<mydb, squirrels, lastId, req, out, outcome, prev, issued, deleted, fresh,
                       raising, waiting>>

\* handleSquirrelsUpdate and handleSquirrelsDelete after a lookup that found
\* the record: the form is read (update) and the store is changed.
Mutate ==
    \E h \in handlers :
        /\ h.pc = "found"
        /\ LET squirrelId == parsePath(h.request.path).resourceId
               body == getRequestData(h.request)
               name == Get(body, "name")
               size == Get(body, "size")
           IN IF h.request.method = "PUT" /\ (~Truthy(name) \/ ~Truthy(size))
              THEN /\ reply' = Reply(h, 400, squirrels)
                   /\ UNCHANGED squirrels
              ELSE /\ reply' = Reply(h, 204, squirrels)
                   /\ squirrels' = IF h.request.method = "PUT"
                                   THEN updateSquirrel(squirrels, squirrelId, name, size)
                                   ELSE deleteSquirrel(squirrels, squirrelId)
        /\ handlers' = handlers \ {h}
        /\ UNCHANGED <<mydb, lastId, req, out, outcome, prev, issued, deleted, fresh, raising,
                       waiting>>

\* handleSquirrelsCreate: the form is read and the record inserted.
Insert ==
    \E h \in handlers :
        /\ h.pc = "start" /\ h.request.method = "POST"
        /\ \E res \in {handleSquirrelsCreate(h.request, squirrels, lastId, NoFault)} :
              /\ squirrels' = res.squirrels
              /\ lastId' = res.lastId
              /\ reply' = Reply(h, Status(res.out), squirrels)
        /\ handlers' = handlers \ {h}
        /\ UNCHANGED <<mydb, req, out, outcome, prev, issued, deleted, fresh, raising, waiting>>

NextConcurrent == Send \/ Accept \/ Lookup \/ Mutate \/ Insert

SpecConcurrent == Init /\ [][NextConcurrent]_vars

(***************************************************************************)
(* Callers of MyDB on one file                                             *)
(***************************************************************************)

\* The handler's state, which MyDB calls leave alone.
server ==
    <<squirrels, lastId, req, out, outcome, prev, issued, deleted, fresh, raising,
      waiting, handlers, reply>>

\* MyDB(path): a new instance on the file.
MyDBOpen ==
    \E i \in Instances \ mydb.opened :
        /\ mydb' = [mydb EXCEPT !.file = MyDBInit(mydb.file), !.opened = @ \cup {i}]
        /\ UNCHANGED server

\* db.saveStrings(list)
SaveStrings ==
    \E i \in mydb.opened, list \in Lists :
        /\ mydb' = [mydb EXCEPT !.file = saveStrings(mydb.file, list),
                                !.loaded = NotLoaded, !.loader = "",
                                !.saved = list, !.appended = <<>>, !.writers = {i},
                                !.overwrote = Unpickle(mydb.file) # <<>>]
        /\ UNCHANGED server

\* db.saveString(s)
SaveString ==
    \E i \in mydb.opened, s \in Strings :
        /\ Len(Unpickle(mydb.file)) < MaxStrings
        /\ mydb' = [mydb EXCEPT !.file = saveString(mydb.file, s),
                                !.loaded = NotLoaded, !.loader = "",
                                !.appended = @ \o <<s>>, !.writers = @ \cup {i}]
        /\ UNCHANGED server

\* db.loadStrings()
LoadStrings ==
    \E i \in mydb.opened :
        /\ mydb' = [mydb EXCEPT !.loaded = loadStrings(mydb.file), !.loader = i]
        /\ UNCHANGED server

NextMyDB == MyDBOpen \/ SaveStrings \/ SaveString \/ LoadStrings

SpecMyDB == Init /\ [][NextMyDB]_vars

(***************************************************************************)
(* Properties.  Each is about the request just handled: req is the         *)
(* request, out its response, prev the store before it and squirrels,      *)
(* lastId the store after it.                                              *)
(***************************************************************************)

Handled == req # NoRequest

\* The request's path as the dispatcher reads it.
Target == parsePath(Parsed(req).path)
OnCollection == Target.resourceName = "squirrels" /\ ~Truthy(Target.resourceId)
OnMember == Target.resourceName = "squirrels" /\ Truthy(Target.resourceId)

\* The request's form fields as the handler reads them.
Form == getRequestData(req)
FormValid == Truthy(Get(Form, "name")) /\ Truthy(Get(Form, "size"))

\* The row of the store before the request that the request's id names.
Exists == \E s \in prev.squirrels : ToString(s.id) = Target.resourceId
Named == CHOOSE s \in prev.squirrels : ToString(s.id) = Target.resourceId

StoreUnchanged == squirrels = prev.squirrels /\ lastId = prev.lastId

\* The routing table: the action for a method, without and with an id.
RoutingTable ==
    [GET |-> <<"index", "retrieve">>,
     POST |-> <<"create", "notFound">>,
     PUT |-> <<"notFound", "update">>,
     DELETE |-> <<"notFound", "delete">>]

Routed ==
    IF Target.resourceName # "squirrels" THEN "notFound"
    ELSE RoutingTable[req.method][IF Truthy(Target.resourceId) THEN 2 ELSE 1]

\* What an action of the table does with the request on the store before it.
ActionResult(action) ==
    CASE action = "index" -> handleSquirrelsIndex(prev.squirrels, prev.lastId, NoFault)
      [] action = "retrieve" ->
            handleSquirrelsRetrieve(prev.squirrels, prev.lastId, NoFault, Target.resourceId)
      [] action = "create" -> handleSquirrelsCreate(req, prev.squirrels, prev.lastId, NoFault)
      [] action = "update" ->
            handleSquirrelsUpdate(req, prev.squirrels, prev.lastId, NoFault, Target.resourceId)
      [] action = "delete" ->
            handleSquirrelsDelete(prev.squirrels, prev.lastId, NoFault, Target.resourceId)
      [] action = "notFound" -> Result(handle404, prev.squirrels, prev.lastId, "done")

\* C1: a GET, POST, PUT or DELETE request gets the action the routing table
\* gives for its method and the presence of an id, and notFound (404, store
\* untouched) whenever the resource name is not "squirrels".
C1_RoutingTable ==
    (Handled /\ req.method \in DOMAIN RoutingTable) =>
        /\ out = ActionResult(Routed).out
        /\ squirrels = ActionResult(Routed).squirrels
        /\ lastId = ActionResult(Routed).lastId
        /\ Routed = "notFound" =>
              Status(out) = 404 /\ Written(out) = "404 Not Found" /\ StoreUnchanged

\* A POST with an id in the path and a valid form was answered 404.
C1_Witness ==
    /\ Handled /\ req.method = "POST" /\ OnMember /\ Exists /\ FormValid
    /\ Status(out) = 404

\* C2: a successful create assigns exactly one id, larger than every id issued
\* before it, the ids of deleted records included.
C2_IdsNeverReused ==
    (Handled /\ Status(out) = 201) =>
        /\ Cardinality(Ids(squirrels) \ Ids(prev.squirrels)) = 1
        /\ \A n \in Ids(squirrels) \ Ids(prev.squirrels) :
              \A i \in prev.issued \cup Ids(prev.squirrels) : n > i

\* A create succeeded after the record with the largest id was deleted.
C2_Witness ==
    /\ Handled /\ Status(out) = 201
    /\ prev.squirrels # {}
    /\ ToString(prev.lastId) \in prev.deleted

\* C3: a POST on the collection with a non-empty name and size answers 201 and
\* adds exactly one record, with the submitted name and size, to the records
\* there were, which all stay as they were.
C3_CreateAddsOne ==
    (Handled /\ req.method = "POST" /\ OnCollection /\ FormValid) =>
        /\ Status(out) = 201
        /\ prev.squirrels \subseteq squirrels
        /\ Cardinality(squirrels) = Cardinality(prev.squirrels) + 1
        /\ \A s \in squirrels \ prev.squirrels :
              s.name = Get(Form, "name") /\ s.size = Get(Form, "size")

\* A create with a name different from its size was added to a store of two.
C3_Witness ==
    /\ Handled /\ req.method = "POST" /\ OnCollection /\ FormValid
    /\ Get(Form, "name") # Get(Form, "size")
    /\ Status(out) = 201
    /\ Cardinality(prev.squirrels) = 2

\* C4: a POST on the collection, or a PUT on an existing id, whose form lacks
\* a name or a size or has an empty one, answers 400 and leaves the store as
\* it was.
C4_InvalidFormRejected ==
    (/\ Handled
     /\ \/ req.method = "POST" /\ OnCollection
        \/ req.method = "PUT" /\ OnMember /\ Exists
     /\ ~FormValid) =>
        Status(out) = 400 /\ StoreUnchanged

\* A PUT on an existing id with a name and no size was answered 400.
C4_Witness ==
    /\ Handled /\ req.method = "PUT" /\ OnMember /\ Exists
    /\ Truthy(Get(Form, "name")) /\ Get(Form, "size") = None
    /\ Status(out) = 400
    /\ Named \in squirrels

\* The row the request's id names, with the form's name and size.
Rewritten == [id |-> Named.id, name |-> Get(Form, "name"), size |-> Get(Form, "size")]

\* C5: a PUT on an existing id with a non-empty name and size answers 204 and
\* gives that record the submitted name and size: its id, the number of
\* records and every other record stay as they were.
C5_UpdateInPlace ==
    (Handled /\ req.method = "PUT" /\ OnMember /\ Exists /\ FormValid) =>
        /\ Status(out) = 204
        /\ squirrels = (prev.squirrels \ {Named}) \cup {Rewritten}
        /\ Cardinality(squirrels) = Cardinality(prev.squirrels)
        /\ Ids(squirrels) = Ids(prev.squirrels)

\* A PUT changed both the name and the size of one of three records.
C5_Witness ==
    /\ Handled /\ req.method = "PUT" /\ OnMember /\ Exists /\ FormValid
    /\ Status(out) = 204
    /\ Named.name # Get(Form, "name") /\ Named.size # Get(Form, "size")
    /\ Cardinality(prev.squirrels) = 3

\* C6: a PUT for an id that names no stored record answers 404, whatever its
\* body is, and leaves the store as it was.
C6_UpdateMissingIs404 ==
    (Handled /\ req.method = "PUT" /\ OnMember /\ ~Exists) =>
        Status(out) = 404 /\ StoreUnchanged

\* A PUT for an id that was never issued, with a form that lacks its fields,
\* was answered 404 by a store that holds records.
C6_Witness ==
    /\ Handled /\ req.method = "PUT" /\ OnMember /\ ~Exists /\ ~FormValid
    /\ prev.squirrels # {}
    /\ Status(out) = 404

\* C7: a DELETE on an existing id answers 204 and removes that record and no
\* other: one record fewer, the rest as they were.
C7_DeleteRemovesOne ==
    (Handled /\ req.method = "DELETE" /\ OnMember /\ Exists) =>
        /\ Status(out) = 204
        /\ squirrels = prev.squirrels \ {Named}
        /\ Cardinality(squirrels) = Cardinality(prev.squirrels) - 1

\* A DELETE removed one of three records.
C7_Witness ==
    /\ Handled /\ req.method = "DELETE" /\ OnMember /\ Exists
    /\ Status(out) = 204
    /\ Cardinality(prev.squirrels) = 3

\* C8: once a DELETE on an id was answered 204, every later GET, PUT or DELETE
\* on that id answers 404, whatever was requested in between.
C8_DeletedStays404 ==
    (/\ Handled /\ req.method \in {"GET", "PUT", "DELETE"} /\ OnMember
     /\ Target.resourceId \in prev.deleted) =>
        Status(out) = 404

\* A second DELETE on an id was answered 404 after a record was created since.
C8_Witness ==
    /\ Handled /\ req.method = "DELETE" /\ OnMember
    /\ Target.resourceId \in prev.deleted
    /\ \E s \in prev.squirrels : \E i \in 1..s.id : i < s.id /\ ToString(i) = Target.resourceId
    /\ Status(out) = 404

\* The rows submitted to a create and not sent a PUT or DELETE since, that the
\* request's id names.
FreshNamed == {f \in prev.fresh : ToString(f.id) = Target.resourceId}

\* C9: after a POST with name n and size s was answered 201, a GET on the id
\* it was given answers 200 with the JSON object {id, name: n, size: s}, as
\* long as no PUT or DELETE was sent for that id.
C9_CreateThenRetrieve ==
    (Handled /\ req.method = "GET" /\ OnMember) =>
        \A f \in FreshNamed :
            /\ Status(out) = 200
            /\ ContentType(out) = "application/json"
            /\ Written(out) = JsonObject(f)

\* A GET returned the first record as created, after a later create and a
\* DELETE of another record.
C9_Witness ==
    /\ Handled /\ req.method = "GET" /\ OnMember
    /\ \E f \in FreshNamed : f.id = 1 /\ f.name # f.size
    /\ prev.squirrels # {} /\ prev.deleted # {}
    /\ Status(out) = 200

\* The rows in strictly ascending order of id, each once.
Ascending(rows) ==
    CHOOSE list \in [1..Cardinality(rows) -> rows] :
        \A i, j \in 1..Cardinality(rows) : i < j => list[i].id < list[j].id

\* C10: a GET on the collection answers 200 with the JSON array of every
\* stored record, once each, in strictly ascending order of id ("[]" for an
\* empty store), and leaves the store as it was.
C10_IndexListsAll ==
    (Handled /\ req.method = "GET" /\ OnCollection) =>
        /\ Status(out) = 200
        /\ ContentType(out) = "application/json"
        /\ Written(out) = JsonArray(Ascending(prev.squirrels))
        /\ prev.squirrels = {} => Written(out) = "[]"
        /\ StoreUnchanged

\* A GET on the collection listed the records left after a delete.
C10_Witness ==
    /\ Handled /\ req.method = "GET" /\ OnCollection
    /\ Cardinality(prev.squirrels) = 2 /\ prev.deleted # {}
    /\ Status(out) = 200

\* C11: the id is not checked for its format: a GET, PUT or DELETE on
\* /squirrels/{id} whose id names no stored record (a number never issued, a
\* deleted id or a text that is no number) answers 404 and leaves the store
\* as it was.
C11_UnknownIdIs404 ==
    (Handled /\ req.method \in {"GET", "PUT", "DELETE"} /\ OnMember /\ ~Exists) =>
        Status(out) = 404 /\ StoreUnchanged

\* A GET for an id that is no number was answered 404 by a store that holds
\* records and has deleted one.
C11_Witness ==
    /\ Handled /\ req.method = "GET" /\ OnMember /\ ~Exists
    /\ Target.resourceId \notin IdTexts
    /\ prev.squirrels # {} /\ prev.deleted # {}
    /\ Status(out) = 404

\* C12: a PATCH answers 405 with the plain-text body "405 Method Not Allowed"
\* whatever the path and the store are, and leaves the store as it was.
C12_PatchIs405 ==
    (Handled /\ req.method = "PATCH") =>
        /\ Status(out) = 405
        /\ ContentType(out) = "text/plain"
        /\ Written(out) = "405 Method Not Allowed"
        /\ StoreUnchanged

\* A PATCH off the squirrels resource was answered 405 by a store that holds
\* records.
C12_Witness ==
    /\ Handled /\ req.method = "PATCH"
    /\ Target.resourceName = "other" /\ Truthy(Target.resourceId)
    /\ prev.squirrels # {}
    /\ Status(out) = 405

\* The methods the handler has a do_ method for.
Implemented == {"GET", "POST", "PUT", "DELETE", "PATCH"}

\* C13: a request whose method is none of GET, POST, PUT, DELETE and PATCH
\* answers 404 with the plain-text body "404 Not Found", with or without an
\* id in the path.
C13_OtherMethodsAre404 ==
    (Handled /\ req.method \notin Implemented) =>
        /\ Status(out) = 404
        /\ ContentType(out) = "text/plain"
        /\ Written(out) = "404 Not Found"

\* The responses of the seven outcomes to the request on the store before it.
OutcomeResponses ==
    {ActionResult(a).out :
        a \in {"index", "retrieve", "create", "update", "delete", "notFound"}}
    \cup {do_PATCH(req, prev.squirrels, prev.lastId, NoFault).out}

\* C14: every request gets exactly one outcome, one of index, retrieve,
\* create, update, delete, methodNotAllowed and notFound, and exactly one
\* response status line: never none and never two.
C14_ExactlyOneOutcome ==
    Handled =>
        /\ Len(StatusLines(out)) = 1
        /\ out \in OutcomeResponses

\* C15: in every store state a GET on /squirrels/ gets the status, the
\* Content-Type and the body a GET on /squirrels gets.
C15_TrailingSlashIsIndex ==
    (Handled /\ req.method = "GET" /\ req.path = <<"/", "squirrels", "/">>) =>
        LET plain == Dispatch(Request("GET", <<"/", "squirrels">>, None, <<>>),
                              prev.squirrels, prev.lastId, NoFault).out
        IN /\ Status(out) = Status(plain)
           /\ ContentType(out) = ContentType(plain)
           /\ Written(out) = Written(plain)

\* A GET on /squirrels/ listed the two records of the store.
C15_Witness ==
    /\ Handled /\ req.method = "GET" /\ req.path = <<"/", "squirrels", "/">>
    /\ Cardinality(prev.squirrels) = 2
    /\ Status(out) = 200
    /\ Written(out) = JsonArray(Ascending(prev.squirrels))

\* C19: the status fixes the shape of the response: a JSON body with
\* Content-Type application/json comes only with a 200 to a GET; every 400,
\* 404 and 405 has Content-Type text/plain and a body that is not empty; every
\* 201 and 204 has no body and no Content-Type header.
C19_ShapeByStatus ==
    Handled =>
        /\ ContentType(out) = "application/json" =>
              Status(out) = 200 /\ req.method = "GET"
        /\ Status(out) \in {400, 404, 405} =>
              ContentType(out) = "text/plain" /\ Written(out) # ""
        /\ Status(out) \in {201, 204} =>
              Written(out) = "" /\ ContentType(out) = None

\* A PUT with a valid form was answered 204 with no body and no Content-Type.
C19_Witness ==
    /\ Handled /\ req.method = "PUT" /\ OnMember /\ Exists /\ FormValid
    /\ Status(out) = 204 /\ Written(out) = "" /\ ContentType(out) = None

\* The request has no Content-Length, one that is no integer, or a body that
\* is not text.
Unparseable ==
    \/ req.clen \in {None, ""}
    \/ ~IsInt(req.clen)
    \/ \E i \in DOMAIN req.body : req.body[i] = BadByte

\* C18: body parsing is total: without a Content-Length, with one that is no
\* integer, or with a body that cannot be decoded, the parsed form is empty
\* and the handler ends normally; a create, or an update of an existing id,
\* with such a request answers 400 and creates or changes no record.
C18_ParsingTotal ==
    (/\ Handled
     /\ \/ req.method = "POST" /\ OnCollection
        \/ req.method = "PUT" /\ OnMember /\ Exists
     /\ Unparseable) =>
        /\ Form = EmptyDict
        /\ outcome = "done"
        /\ Status(out) = 400
        /\ StoreUnchanged

\* A create whose body is a valid form followed by an undecodable byte was
\* answered 400 by a store that holds a record.
C18_Witness ==
    /\ Handled /\ req.method = "POST" /\ OnCollection
    /\ Len(req.body) > 1 /\ req.body[Len(req.body)] = BadByte
    /\ req.clen = ToString(Len(req.body))
    /\ prev.squirrels # {}
    /\ Status(out) = 400 /\ StoreUnchanged

\* The store calls the request's action makes, in the order it makes them,
\* up to its answer.
Performed ==
    CASE Routed = "index" -> {"SquirrelDB", "getSquirrels"}
      [] Routed = "retrieve" -> {"SquirrelDB", "getSquirrel"}
      [] Routed = "create" ->
            {"SquirrelDB"} \cup (IF FormValid THEN {"createSquirrel"} ELSE {})
      [] Routed = "update" ->
            {"SquirrelDB", "getSquirrel"}
            \cup (IF Exists /\ FormValid THEN {"updateSquirrel"} ELSE {})
      [] Routed = "delete" ->
            {"SquirrelDB", "getSquirrel"}
            \cup (IF Exists THEN {"deleteSquirrel"} ELSE {})
      [] Routed = "notFound" -> {}

\* C16: there is no 5xx and no dropped connection: in every action the
\* failure of a store call it makes (constructing the store, list, lookup,
\* insert, update, delete) is caught and answered 400, and no exception
\* leaves the handler.
C16_StoreFailuresAre400 ==
    Handled =>
        /\ outcome # "raised"
        /\ Status(out) < 500
        /\ raising \in Performed => Status(out) = 400

\* C17: with a valid form, a failure of the store's insert in a create, or of
\* its update in an update of an existing id, is answered 400: not 201 or
\* 204, and no exception leaves the handler.
C17_MutationFailureIs400 ==
    (/\ Handled /\ FormValid
     /\ \/ req.method = "POST" /\ OnCollection /\ raising = "createSquirrel"
        \/ req.method = "PUT" /\ OnMember /\ Exists /\ raising = "updateSquirrel") =>
        /\ outcome = "done"
        /\ Len(StatusLines(out)) = 1
        /\ Status(out) = 400

\* The insert of a create with a valid form raised and the answer was 400.
C17_Witness ==
    /\ Handled /\ FormValid
    /\ req.method = "POST" /\ OnCollection /\ raising = "createSquirrel"
    /\ prev.squirrels # {}
    /\ Status(out) = 400 /\ squirrels = prev.squirrels

\* C20: with several clients sending at once, requests are handled one at a
\* time: no second handler runs beside one that is running, the store does
\* not change between a handler's lookup and its update or delete, and no
\* 204 is sent for a record that was gone when the handler changed the store.
C20_OneAtATime ==
    /\ Cardinality(handlers) <= 1
    /\ ~reply.interleaved
    /\ reply.status = 204 => reply.present

\* A DELETE was answered 204 while another client's DELETE for the same id
\* had been waiting since before it began, and that one is now being handled.
C20_Witness ==
    /\ reply.status = 204 /\ reply.request.method = "DELETE"
    /\ \E w \in reply.rivals :
          /\ w.client # reply.client /\ w.request = reply.request
          /\ \E h \in handlers : h.client = w.client /\ h.request = w.request

\* The request's action reads the body: a create, or an update of an id that
\* names a stored record.
ReadsBody ==
    \/ req.method = "POST" /\ OnCollection
    \/ req.method = "PUT" /\ OnMember /\ Exists

\* The body bytes rfile.read has returned to such an action.
BytesRead ==
    IF ~Truthy(req.clen) \/ ~IsInt(req.clen) THEN 0
    ELSE IF int(req.clen) < 0 \/ int(req.clen) > Len(req.body) THEN Len(req.body)
    ELSE int(req.clen)

\* The request has been sent a status line.
Responded == Len(StatusLines(out)) > 0

\* C21: no request blocks on its body: whatever the Content-Length header is
\* (absent, zero, positive, negative, no number, more than the bytes sent),
\* the handler reads at most the declared number of body bytes and the
\* request is eventually sent a response.
C21_NoRequestBlocks ==
    /\ [](Handled /\ Responded /\ ReadsBody /\ Truthy(req.clen) /\ IsInt(req.clen)
            => BytesRead <= int(req.clen))
    /\ (Handled ~> Responded)

\* The segments of a path that are not empty, in order.
NonEmptySegments(path) ==
    SelectSeq(Split(Tail(path), "/"), LAMBDA seg : seg # <<>>)

\* C22: path parsing takes the first non-empty segment after the leading
\* slash for the resource name and the second non-empty segment, if there is
\* one, for the id: empty segments are skipped, so "//squirrels" names
\* "squirrels" without an id and "/squirrels//5" names "squirrels" with id "5".
C22_EmptySegmentsSkipped ==
    (Handled /\ Head(req.path) = "/") =>
        LET segs == NonEmptySegments(req.path) IN
        /\ Target.resourceName = (IF Len(segs) > 0 THEN Join(segs[1]) ELSE "")
        /\ Target.resourceId = (IF Len(segs) > 1 THEN Join(segs[2]) ELSE None)

\* The request's body is a form with a name and a size, sent whole.
RawFormValid == req.body \in ValidBodies /\ req.clen = ToString(Len(req.body))

\* C23: the Content-Type of a request is advisory: what a POST or a PUT does
\* depends on the body and the Content-Length alone, so it gets the response
\* and leaves the store that the same request without a Content-Type would;
\* a create whose body is a valid form is answered 201 under any
\* Content-Type and its record is in the store afterwards.
C23_ContentTypeAdvisory ==
    (Handled /\ req.method \in BodyMethods) =>
        LET bare == Dispatch([req EXCEPT !.ctype = None], prev.squirrels, prev.lastId,
                             NoFault)
        IN /\ out = bare.out
           /\ squirrels = bare.squirrels
           /\ lastId = bare.lastId
           /\ (req.method = "POST" /\ OnCollection /\ RawFormValid) =>
                 /\ Status(out) = 201
                 /\ \E s \in squirrels \ prev.squirrels :
                       Field("name", s.name) \o <<"&">> \o Field("size", s.size) = req.body

\* A create sent as text/plain with a valid form was answered 201 by a store
\* that holds a record.
C23_Witness ==
    /\ Handled /\ req.method = "POST" /\ OnCollection /\ RawFormValid
    /\ req.ctype = "text/plain"
    /\ prev.squirrels # {}
    /\ Status(out) = 201
    /\ Cardinality(squirrels) = Cardinality(prev.squirrels) + 1

\* C24: after any sequence of saveStrings (overwrite) and saveString
\* (append) calls on one file, loadStrings returns the list of the last
\* saveStrings (the empty list when there was none) followed by the strings
\* given to saveString since, in call order, with nothing from before the
\* overwrite; an instance made later on the file loads the same list.
C24_OverwriteThenAppend ==
    mydb.loaded # NotLoaded => mydb.loaded = mydb.saved \o mydb.appended

\* An instance that wrote nothing loaded the list of an overwrite of a
\* non-empty file followed by an append.
C24_Witness ==
    /\ mydb.loaded # NotLoaded
    /\ mydb.loader \notin mydb.writers
    /\ mydb.overwrote /\ mydb.saved # <<>> /\ mydb.appended # <<>>
    /\ mydb.loaded = mydb.saved \o mydb.appended

\* C25: while store calls do not fail, the store changes only in a step that
\* answers 201, which adds exactly one record, or 204, which updates or
\* removes exactly one; a request answered 200, 400, 404 or 405 leaves the
\* records and the next id as they were.
C25_FrameByStatus ==
    Handled =>
        /\ Status(out) \in {200, 400, 404, 405} => StoreUnchanged
        /\ ~StoreUnchanged => Status(out) \in {201, 204}
        /\ Status(out) = 201 =>
              /\ prev.squirrels \subseteq squirrels
              /\ Cardinality(squirrels \ prev.squirrels) = 1
        /\ Status(out) = 204 =>
              /\ lastId = prev.lastId
              /\ Cardinality(prev.squirrels \ squirrels) <= 1
              /\ \/ Ids(squirrels) = Ids(prev.squirrels)
                 \/ squirrels \subseteq prev.squirrels
                    /\ Cardinality(squirrels) = Cardinality(prev.squirrels) - 1

\* A create without a size was answered 400 by a store of two records, which
\* stayed as it was.
C25_Witness ==
    /\ Handled /\ req.method = "POST" /\ OnCollection
    /\ Truthy(Get(Form, "name")) /\ ~Truthy(Get(Form, "size"))
    /\ Cardinality(prev.squirrels) = 2
    /\ Status(out) = 400 /\ StoreUnchanged

\* C26: a valid PUT is idempotent: the same PUT on an existing id sent again
\* right after it was answered 204 is answered 204 again and leaves the store
\* as the first left it.
C26_UpdateIdempotent ==
    (Handled /\ req.method = "PUT" /\ OnMember /\ Exists /\ FormValid) =>
        LET again == Dispatch(req, squirrels, lastId, NoFault) IN
        /\ Status(out) = 204
        /\ Status(again.out) = 204
        /\ again.squirrels = squirrels
        /\ again.lastId = lastId

\* A PUT that changed the name and the size of one of two records was
\* answered 204, and the record now has what the PUT sent.
C26_Witness ==
    /\ Handled /\ req.method = "PUT" /\ OnMember /\ Exists /\ FormValid
    /\ Named.name # Get(Form, "name") /\ Named.size # Get(Form, "size")
    /\ Cardinality(prev.squirrels) = 2
    /\ Status(out) = 204
    /\ Rewritten \in squirrels

\* The request's path is /squirrels/{id}/ and more.
Overlong ==
    /\ Len(req.path) > 5
    /\ SubSeq(req.path, 1, 3) = <<"/", "squirrels", "/">>
    /\ req.path[4] # "/" /\ req.path[5] = "/"

\* C27: the segments of a path after the second are ignored: a GET, PUT or
\* DELETE on /squirrels/{id}/{anything} gets the response and has the effect
\* on the store of the same request on /squirrels/{id}, and a POST on it
\* answers 404 as on /squirrels/{id}.
C27_ExtraSegmentsIgnored ==
    (Handled /\ Overlong /\ req.method \in {"GET", "POST", "PUT", "DELETE"}) =>
        LET short == Dispatch([req EXCEPT !.path = SubSeq(req.path, 1, 4)],
                              prev.squirrels, prev.lastId, NoFault)
        IN /\ Target.resourceName = "squirrels"
           /\ Target.resourceId = req.path[4]
           /\ out = short.out
           /\ squirrels = short.squirrels
           /\ lastId = short.lastId
           /\ req.method = "POST" => Status(out) = 404 /\ StoreUnchanged

\* A DELETE on /squirrels/{id}/extra removed the record of that id from a
\* store of two.
C27_Witness ==
    /\ Handled /\ Overlong /\ req.method = "DELETE" /\ Exists
    /\ Cardinality(prev.squirrels) = 2
    /\ Status(out) = 204
    /\ squirrels = prev.squirrels \ {Named}

====
